---- MODULE Spec2Model ----
(***************************************************************************)
(* LinkedIn posting bot: configuration check, content generation with its  *)
(* fallback, the publish client and the daily scheduler loop.              *)
(*                                                                         *)
(* Python strings are sequences of one-character strings (an emoji is one  *)
(* element, written by its code point).  None is the value NoneVal.        *)
(***************************************************************************)
EXTENDS Integers, Sequences, FiniteSets, TLC

\* ------------------------------------------------------------------ bounds

\* minutes in a day of the model's calendar (one poll tick is one minute)
DayLen == 3

\* the clock stops advancing at this minute
MaxTime == 8

\* random.choice(self.frontend_topics) draws among the first MaxTopics topics
MaxTopics == 2
MaxTextLen == 3
MaxSecretLen == 5

\* ----------------------------------------------------------------- strings

\* None: a value that is no string (its one element is not a character)
NoneVal == <<"None">>

frontend_topics ==
  << <<"R","e","a","c","t",".","j","s">>,
     <<"V","u","e",".","j","s">>,
     <<"A","n","g","u","l","a","r">>,
     <<"N","e","x","t",".","j","s">>,
     <<"N","u","x","t",".","j","s">>,
     <<"S","v","e","l","t","e">>,
     <<"S","o","l","i","d",".","j","s">>,
     <<"T","y","p","e","S","c","r","i","p","t">>,
     <<"J","a","v","a","S","c","r","i","p","t"," ","E","S","6","+">>,
     <<"C","S","S"," ","G","r","i","d">>,
     <<"F","l","e","x","b","o","x">>,
     <<"T","a","i","l","w","i","n","d"," ","C","S","S">>,
     <<"W","e","b"," ","C","o","m","p","o","n","e","n","t","s">>,
     <<"P","r","o","g","r","e","s","s","i","v","e"," ","W","e","b"," ",
        "A","p","p","s">>,
     <<"W","e","b","A","s","s","e","m","b","l","y">>,
     <<"W","e","b","R","T","C">>,
     <<"G","r","a","p","h","Q","L">>,
     <<"R","E","S","T"," ","A","P","I","s">>,
     <<"M","i","c","r","o","-","f","r","o","n","t","e","n","d","s">>,
     <<"S","e","r","v","e","r","-","S","i","d","e"," ","R","e","n","d",
        "e","r","i","n","g">>,
     <<"S","t","a","t","i","c"," ","S","i","t","e"," ","G","e","n","e",
        "r","a","t","i","o","n">>,
     <<"J","A","M","s","t","a","c","k">>,
     <<"W","e","b","p","a","c","k">>,
     <<"V","i","t","e">>,
     <<"P","a","r","c","e","l">>,
     <<"T","e","s","t","i","n","g">>,
     <<"J","e","s","t">>,
     <<"C","y","p","r","e","s","s">>,
     <<"P","l","a","y","w","r","i","g","h","t">>,
     <<"A","c","c","e","s","s","i","b","i","l","i","t","y">>,
     <<"P","e","r","f","o","r","m","a","n","c","e">>,
     <<"B","u","n","d","l","e"," ","O","p","t","i","m","i","z","a","t",
        "i","o","n">>,
     <<"C","o","d","e"," ","S","p","l","i","t","t","i","n","g">>,
     <<"L","a","z","y"," ","L","o","a","d","i","n","g">>,
     <<"C","a","c","h","i","n","g"," ","S","t","r","a","t","e","g","i",
        "e","s">> >>

TipHead1 ==
    <<"U+1F4A1"," ">>

TipTail1 ==
    <<" ","t","i","p",":"," ","A","l","w","a","y","s"," ","k","e","e",
    "p"," ","y","o","u","r"," ","d","e","p","e","n","d","e","n","c",
    "i","e","s"," ","u","p","d","a","t","e","d"," ","f","o","r"," ",
    "b","e","t","t","e","r"," ","s","e","c","u","r","i","t","y"," ",
    "a","n","d"," ","p","e","r","f","o","r","m","a","n","c","e","!">>

TipHead2 ==
    <<"U+1F680"," ","W","o","r","k","i","n","g"," ","w","i","t","h"," ">>

TipTail2 ==
    <<"?"," ","R","e","m","e","m","b","e","r"," ","t","o"," ","o","p",
    "t","i","m","i","z","e"," ","y","o","u","r"," ","b","u","n","d",
    "l","e"," ","s","i","z","e"," ","f","o","r"," ","f","a","s","t",
    "e","r"," ","l","o","a","d"," ","t","i","m","e","s",".">>

TipHead3 ==
    <<"U+2728"," ","B","e","s","t"," ","p","r","a","c","t","i","c","e"," ",
    "f","o","r"," ">>

TipTail3 ==
    <<":"," ","W","r","i","t","e"," ","c","l","e","a","n",","," ","r",
    "e","a","d","a","b","l","e"," ","c","o","d","e"," ","t","h","a",
    "t"," ","y","o","u","r"," ","f","u","t","u","r","e"," ","s","e",
    "l","f"," ","w","i","l","l"," ","t","h","a","n","k"," ","y","o",
    "u"," ","f","o","r","!">>

TipHead4 ==
    <<"U+1F4C8"," ">>

TipTail4 ==
    <<" ","i","s"," ","e","v","o","l","v","i","n","g"," ","r","a","p",
    "i","d","l","y"," ","-"," ","s","t","a","y"," ","u","p","d","a",
    "t","e","d"," ","w","i","t","h"," ","t","h","e"," ","l","a","t",
    "e","s","t"," ","f","e","a","t","u","r","e","s"," ","a","n","d",
    " ","b","e","s","t"," ","p","r","a","c","t","i","c","e","s","!">>

TipHead5 ==
    <<"U+1F527"," ","C","o","m","m","o","n"," ">>

TipTail5 ==
    <<" ","i","s","s","u","e","?"," ","C","h","e","c","k"," ","y","o",
    "u","r"," ","c","o","n","s","o","l","e"," ","f","o","r"," ","e",
    "r","r","o","r","s"," ","a","n","d"," ","u","s","e"," ","d","e",
    "b","u","g","g","i","n","g"," ","t","o","o","l","s"," ","e","f",
    "f","e","c","t","i","v","e","l","y",".">>

FallbackTagsHead ==
    <<"\n","\n","#","F","r","o","n","t","e","n","d","D","e","v","e","l",
    "o","p","m","e","n","t"," ","#">>

FallbackTagsTail ==
    <<" ","#","W","e","b","D","e","v","e","l","o","p","m","e","n","t",
    " ","#","T","e","c","h","T","i","p","s">>

NoPostsScheduled ==
    <<"N","o"," ","p","o","s","t","s"," ","s","c","h","e","d","u","l",
    "e","d">>

HashReactJS ==
    <<"#","R","e","a","c","t","J","S">>

HashReactjs ==
    <<"#","R","e","a","c","t","j","s">>

\* str.replace(ch, ''): every occurrence of the character ch removed
RECURSIVE Replace(_, _)
Replace(s, ch) ==
    IF s = << >> THEN << >>
    ELSE IF Head(s) = ch THEN Replace(Tail(s), ch)
         ELSE <<Head(s)>> \o Replace(Tail(s), ch)

\* needle in s  (Python's substring test)
Contains(s, needle) ==
    \E i \in 0..(Len(s) - Len(needle)) :
        \A j \in 1..Len(needle) : s[i + j] = needle[j]

Whitespace == {" ", "\n", "\t", "\r"}

RECURSIVE LStrip(_)
LStrip(s) ==
    IF s # << >> /\ Head(s) \in Whitespace THEN LStrip(Tail(s)) ELSE s

RECURSIVE RStrip(_)
RStrip(s) ==
    IF s # << >> /\ s[Len(s)] \in Whitespace
    THEN RStrip(SubSeq(s, 1, Len(s) - 1)) ELSE s

\* str.strip()
Strip(s) == RStrip(LStrip(s))

\* Python truthiness of a str-or-None value
Truthy(v) == v # NoneVal /\ v # << >>


\* separator.join(names), as the sequence of its pieces
RECURSIVE Join(_, _)
Join(names, sep) ==
    IF names = << >> THEN << >>
    ELSE IF Len(names) = 1 THEN names
         ELSE <<Head(names), sep>> \o Join(Tail(names), sep)

\* -------------------------------------------------------------- exceptions

\* the base class of each exception class the calls can raise
ExceptionBase ==
    [ ValueError |-> "Exception", AttributeError |-> "Exception",
      TypeError |-> "Exception", ScheduleValueError |-> "Exception",
      APIError |-> "Exception", KeyError |-> "Exception",
      ImportError |-> "Exception", OSError |-> "Exception",
      RequestException |-> "Exception", HTTPError |-> "RequestException",
      ConnectionError |-> "RequestException",
      InvalidJSONError |-> "RequestException",
      RequestsJSONDecodeError |-> "InvalidJSONError",
      JSONDecodeError |-> "ValueError",
      Exception |-> "BaseException", KeyboardInterrupt |-> "BaseException",
      BaseException |-> "object" ]

\* isinstance(e, cls) for an exception of class e: does `except cls` catch it
RECURSIVE IsInstance(_, _)
IsInstance(e, cls) ==
    IF e = cls THEN TRUE
    ELSE IF e \notin DOMAIN ExceptionBase THEN FALSE
         ELSE IsInstance(ExceptionBase[e], cls)

\* ------------------------------------------------------- load_environment

\* the keys whose presence marks a run in the cloud
CloudIndicators == {"K_SERVICE", "FUNCTION_TARGET", "GAE_INSTANCE"}

\* the keys of os.environ load_environment reads, and a key the secret and
\* the .env file both define
EnvironKeys ==
    CloudIndicators \cup {"USE_SECRET_MANAGER", "LINKEDIN_ACCESS_TOKEN"}

\* a machine with none of them set
LocalEnviron == [k \in EnvironKeys |-> NoneVal]

UpperLetters ==
    <<"A", "B", "C", "D", "E", "F", "G", "H", "I", "J", "K", "L", "M",
      "N", "O", "P", "Q", "R", "S", "T", "U", "V", "W", "X", "Y", "Z">>

LowerLetters ==
    <<"a", "b", "c", "d", "e", "f", "g", "h", "i", "j", "k", "l", "m",
      "n", "o", "p", "q", "r", "s", "t", "u", "v", "w", "x", "y", "z">>

\* str.lower()
Lower(s) ==
    [i \in 1..Len(s) |->
        IF \E n \in 1..Len(UpperLetters) : UpperLetters[n] = s[i]
        THEN LowerLetters[CHOOSE n \in 1..Len(UpperLetters) :
                              UpperLetters[n] = s[i]]
        ELSE s[i]]

\* os.getenv(key, default)
Getenv(e, key, default) == IF e[key] = NoneVal THEN default ELSE e[key]

\* the condition under which load_environment turns to Secret Manager
UsesSecretManager(e) ==
    \/ Truthy(Getenv(e, "K_SERVICE", NoneVal))
    \/ Truthy(Getenv(e, "FUNCTION_TARGET", NoneVal))
    \/ Truthy(Getenv(e, "GAE_INSTANCE", NoneVal))
    \/ Lower(Getenv(e, "USE_SECRET_MANAGER", << >>)) = <<"t", "r", "u", "e">>

\* how the import of secrets_manager and load_secrets_from_gcp can end
StoreOutcomes == {"loaded", "not_loaded", "import_error", "error"}

\* the value the secret gives the key, and the value the .env file gives it
SecretValue == <<"s">>
FileValue == <<"f">>

\* from secrets_manager import load_secrets_from_gcp, and the call: on
\* success load_secret_to_env has set os.environ[key] for the secret's keys
load_secrets_from_gcp(e, so) ==
    CASE so = "loaded" ->
            [raised |-> "none", value |-> TRUE,
             environ |-> [e EXCEPT !["LINKEDIN_ACCESS_TOKEN"] = SecretValue]]
      [] so = "not_loaded" ->
            [raised |-> "none", value |-> FALSE, environ |-> e]
      [] so = "import_error" ->
            [raised |-> "ImportError", value |-> FALSE, environ |-> e]
      [] so = "error" ->
            [raised |-> "ValueError", value |-> FALSE, environ |-> e]

\* load_dotenv(): the keys of the .env file, where os.environ has none
load_dotenv(e) ==
    [e EXCEPT !["LINKEDIN_ACCESS_TOKEN"] =
        IF @ = NoneVal THEN FileValue ELSE @]

Source(name, outcome) == [step |-> name, outcome |-> outcome]

\* load_environment that returns after a load that gave False
load_environment_no_fallback(e, so) ==
    IF UsesSecretManager(e)
    THEN LET r == load_secrets_from_gcp(e, so)
             tried == <<Source("load_secrets_from_gcp", so)>>
         IN  IF r.raised # "none"
             THEN [raised |-> "none", environ |-> load_dotenv(r.environ),
                   steps |-> tried \o <<Source("load_dotenv", "ok")>>]
             ELSE [raised |-> "none", environ |-> r.environ, steps |-> tried]
    ELSE [raised |-> "none", environ |-> load_dotenv(e),
          steps |-> <<Source("load_dotenv", "ok")>>]

\* load_environment(): e is os.environ, so how the secret store answers
load_environment(e, so) ==
    IF UsesSecretManager(e)
    THEN LET r == load_secrets_from_gcp(e, so)
             tried == <<Source("load_secrets_from_gcp", so)>>
             fallback ==
                 [raised |-> "none", environ |-> load_dotenv(r.environ),
                  steps |-> tried \o <<Source("load_dotenv", "ok")>>]
         IN  IF r.raised # "none"
             THEN IF IsInstance(r.raised, "ImportError")
                       \/ IsInstance(r.raised, "Exception")
                  THEN fallback
                  ELSE [raised |-> r.raised, environ |-> r.environ,
                        steps |-> tried]
             ELSE IF r.value
                  THEN [raised |-> "none", environ |-> r.environ,
                        steps |-> tried]
                  ELSE fallback
    ELSE [raised |-> "none", environ |-> load_dotenv(e),
          steps |-> <<Source("load_dotenv", "ok")>>]

\* ---------------------------------------------------------- secrets manager

\* the position of the first ch in s, 0 when there is none
FirstIndex(s, ch) ==
    IF \E i \in 1..Len(s) : s[i] = ch
    THEN CHOOSE i \in 1..Len(s) :
             s[i] = ch /\ \A j \in 1..(i - 1) : s[j] # ch
    ELSE 0

\* s.split(ch)
RECURSIVE Split(_, _)
Split(s, ch) ==
    LET i == FirstIndex(s, ch) IN
    IF i = 0 THEN <<s>>
    ELSE <<SubSeq(s, 1, i - 1)>> \o Split(SubSeq(s, i + 1, Len(s)), ch)

\* a dict as the sequence of its items in insertion order: d[key] = value
DictPut(d, key, value) ==
    IF \E i \in 1..Len(d) : d[i].key = key
    THEN [i \in 1..Len(d) |->
             IF d[i].key = key THEN [key |-> key, value |-> value] ELSE d[i]]
    ELSE Append(d, [key |-> key, value |-> value])

\* the loop of parse_env_format over the lines left, env_vars being d
RECURSIVE ParseLines(_, _)
ParseLines(lines, d) ==
    IF lines = << >> THEN d
    ELSE LET line == Strip(Head(lines))
             i == FirstIndex(line, "=")
         IN  IF line = << >> \/ Head(line) = "#"
             THEN ParseLines(Tail(lines), d)
             ELSE IF i # 0
                  THEN ParseLines(Tail(lines),
                           DictPut(d, Strip(SubSeq(line, 1, i - 1)),
                                   Strip(SubSeq(line, i + 1, Len(line)))))
                  ELSE ParseLines(Tail(lines), d)

\* SecretsManager.parse_env_format(secret_content)
parse_env_format(secret_content) ==
    IF ~Truthy(secret_content) THEN << >>
    ELSE ParseLines(Split(Strip(secret_content), "\n"), << >>)

\* how access_secret can end: the payload, or None without a client, for a
\* secret not found, a permission denied or any other error
AccessOutcomes ==
    {"payload", "no_client", "not_found", "permission_denied", "error"}

\* SecretsManager.access_secret(secret_id), the secret holding `payload`
access_secret(ao, payload) == IF ao = "payload" THEN payload ELSE NoneVal

\* os.environ as a dict from names to values: os.environ[key] = value
EnvironPut(e, key, value) ==
    [k \in DOMAIN e \cup {key} |-> IF k = key THEN value ELSE e[k]]

\* the loop of load_secret_to_env over the items left; os.environ rejects
\* the empty name (OSError, ValueError on other versions of the interpreter)
RECURSIVE SetItems(_, _)
SetItems(d, e) ==
    IF d = << >> THEN [raised |-> "none", value |-> "True", environ |-> e]
    ELSE IF Head(d).key = << >>
         THEN [raised |-> "OSError", value |-> "none", environ |-> e]
         ELSE SetItems(Tail(d), EnvironPut(e, Head(d).key, Head(d).value))

\* an os.environ that holds nothing
NoEnviron == [k \in {} |-> << >>]

\* load_secret_to_env that replaces os.environ by the secret's items
load_secret_to_env_replacing(e, ao, payload) ==
    LET secret_content == access_secret(ao, payload)
        env_vars == parse_env_format(secret_content)
    IN  IF ~Truthy(secret_content) \/ env_vars = << >>
        THEN [raised |-> "none", value |-> "False", environ |-> e]
        ELSE SetItems(env_vars, NoEnviron)

\* SecretsManager.load_secret_to_env(secret_id): e is os.environ, ao and
\* payload what access_secret meets
load_secret_to_env(e, ao, payload) ==
    LET secret_content == access_secret(ao, payload)
        env_vars == parse_env_format(secret_content)
    IN  IF ~Truthy(secret_content)
        THEN [raised |-> "none", value |-> "False", environ |-> e]
        ELSE IF env_vars = << >>
             THEN [raised |-> "none", value |-> "False", environ |-> e]
             ELSE SetItems(env_vars, e)

\* ------------------------------------------------------------------ config

required_vars ==
    <<"LINKEDIN_CLIENT_ID", "LINKEDIN_CLIENT_SECRET",
      "LINKEDIN_ACCESS_TOKEN", "GEMINI_API_KEY">>

\* the attributes class Config defines
ConfigAttrs ==
    {"LINKEDIN_CLIENT_ID", "LINKEDIN_CLIENT_SECRET", "LINKEDIN_REDIRECT_URI",
     "LINKEDIN_ACCESS_TOKEN", "GEMINI_API_KEY", "POST_TIME", "TIMEZONE",
     "LINKEDIN_API_BASE", "LINKEDIN_AUTH_URL", "LINKEDIN_TOKEN_URL"}

\* os.getenv(key) of a required key: unset, set to the empty string, or set
EnvValues == {NoneVal, << >>, <<"a">>}

\* the missing_vars list validate_config builds, in required_vars order
MissingVars(cfg) == SelectSeq(required_vars, LAMBDA v : ~Truthy(cfg[v]))

\* Config.validate_config(): what it raises and with which message
validate_config(cfg) ==
    LET missing_vars == MissingVars(cfg) IN
    IF missing_vars # << >>
    THEN [raised |-> "ValueError",
          msg |-> <<"Missing required environment variables: ">>
                    \o Join(missing_vars, ", ")]
    ELSE [raised |-> "none", msg |-> << >>]

\* ContentGenerator.__init__: reads the class attribute Config.OPENAI_API_KEY
ContentGeneratorInit ==
    IF "OPENAI_API_KEY" \in ConfigAttrs
    THEN [raised |-> "none", msg |-> << >>]
    ELSE [raised |-> "AttributeError",
          msg |-> <<"type object 'Config' has no attribute ",
                    "OPENAI_API_KEY">>]

\* LinkedInBot.__init__: the exception LinkedInBot() ends with, if any
LinkedInBotInit(cfg) ==
    LET g == ContentGeneratorInit IN
    IF g.raised # "none" THEN g ELSE validate_config(cfg)

\* ------------------------------------------------------- content generator

post_templates ==
    <<"tip_template", "tutorial_template", "trend_analysis_template",
      "comparison_template", "best_practice_template",
      "troubleshooting_template">>

\* the topics random.choice(self.frontend_topics) is drawn from
TopicChoices == {frontend_topics[i] : i \in 1..MaxTopics}

\* the five canned lines of _generate_fallback_post, for a topic
tips(topic) ==
    << TipHead1 \o topic \o TipTail1, TipHead2 \o topic \o TipTail2,
       TipHead3 \o topic \o TipTail3, TipHead4 \o topic \o TipTail4,
       TipHead5 \o topic \o TipTail5 >>

\* the fallback with the topic put into the hashtag as it is
generate_fallback_post_raw(topic, tip) ==
    tips(topic)[tip] \o FallbackTagsHead \o topic \o FallbackTagsTail

\* the fallback whose hashtag has only the spaces of the topic removed
generate_fallback_post_dotted(topic, tip) ==
    tips(topic)[tip] \o FallbackTagsHead
        \o Replace(topic, " ") \o FallbackTagsTail

\* _generate_fallback_post(topic), with random.choice(tips) = tips[tip]
generate_fallback_post(topic, tip) ==
    tips(topic)[tip] \o FallbackTagsHead
        \o Replace(Replace(topic, "."), " ") \o FallbackTagsTail

\* what the completion request can give: a text, a response whose content is
\* None, or an API error
AIText ==
    <<"\n"," ","H","o","o","k","s"," ","#","R","e","a","c","t"," ","\n">>

GenOutcomes == {"text", "none_content", "api_error"}

\* _generate_<template>_post(topic): one completion request, then
\* response.choices[0].message.content.strip()
generate_by_template(template, topic, go) ==
    IF go = "api_error"
    THEN [raised |-> "APIError", text |-> << >>, calls |-> 1]
    ELSE IF go = "none_content"
         THEN [raised |-> "AttributeError", text |-> << >>, calls |-> 1]
         ELSE [raised |-> "none", text |-> Strip(AIText), calls |-> 1]

\* generate_post without its try/except: an error of the request propagates
generate_post_uncaught(topic, pick, template, go, tip) ==
    LET t == IF ~Truthy(topic) THEN pick ELSE topic
        r == generate_by_template(template, t, go)
    IN  [raised |-> r.raised, text |-> r.text, calls |-> r.calls,
         fallback |-> FALSE, topic |-> t]

\* generate_post(topic): pick is random.choice(frontend_topics), template is
\* random.choice(post_templates), go the outcome of the completion request,
\* tip the index random.choice(tips) takes
generate_post(topic, pick, template, go, tip) ==
    LET t == IF ~Truthy(topic) THEN pick ELSE topic
        r == IF template \in {post_templates[i] : i \in 1..Len(post_templates)}
             THEN generate_by_template(template, t, go)
             ELSE [raised |-> "none", text |-> NoneVal, calls |-> 0]
    IN  IF r.raised # "none" /\ IsInstance(r.raised, "Exception")
        THEN [raised |-> "none", text |-> generate_fallback_post(t, tip),
              calls |-> r.calls, fallback |-> TRUE, topic |-> t]
        ELSE [raised |-> r.raised, text |-> r.text, calls |-> r.calls,
              fallback |-> FALSE, topic |-> t]

\* the hashtags list of add_hashtags
hashtags ==
  << <<"#","F","r","o","n","t","e","n","d","D","e","v","e","l","o","p",
        "m","e","n","t">>,
     <<"#","W","e","b","D","e","v","e","l","o","p","m","e","n","t">>,
     <<"#","J","a","v","a","S","c","r","i","p","t">>,
     <<"#","T","e","c","h","T","i","p","s">>,
     <<"#","P","r","o","g","r","a","m","m","i","n","g">>,
     <<"#","S","o","f","t","w","a","r","e","D","e","v","e","l","o","p",
        "m","e","n","t">> >>

\* sep.join(strs) on strings
RECURSIVE JoinStr(_, _)
JoinStr(strs, sep) ==
    IF strs = << >> THEN << >>
    ELSE IF Len(strs) = 1 THEN strs[1]
         ELSE strs[1] \o sep \o JoinStr(Tail(strs), sep)

\* add_hashtags without its test for "#"
add_hashtags_always(post) ==
    post \o <<"\n", "\n">> \o JoinStr(SubSeq(hashtags, 1, 3), <<" ">>)

\* ContentGenerator.add_hashtags(post)
add_hashtags(post) ==
    IF ~Contains(post, <<"#">>)
    THEN post \o <<"\n", "\n">> \o JoinStr(SubSeq(hashtags, 1, 3), <<" ">>)
    ELSE post

\* ---------------------------------------------------------- publish client

ProfileId == <<"i","d","1">>

\* what GET /v2/userinfo can give
LookupOutcomes ==
    {"sub", "empty_sub", "no_sub", "non_dict", "http_error", "network_error",
     "bad_json", "bad_json_legacy"}

\* what POST /v2/ugcPosts can give
PostOutcomes ==
    {"created", "empty_json", "non_dict", "http_error", "network_error",
     "bad_json"}

GetUserinfo ==
    [method |-> "GET", url |-> "/v2/userinfo", author |-> << >>, text |-> << >>]

PostUgc(profile_id, text) ==
    [method |-> "POST", url |-> "/v2/ugcPosts", author |-> profile_id,
     text |-> text]

\* the body of the try block of get_profile_info: requests.get,
\* raise_for_status, response.json()
userinfo_request(lo) ==
    CASE lo = "sub" ->
            [raised |-> "none", kind |-> "dict", sub |-> ProfileId]
      [] lo = "empty_sub" ->
            [raised |-> "none", kind |-> "dict", sub |-> << >>]
      [] lo = "no_sub" ->
            [raised |-> "none", kind |-> "dict", sub |-> NoneVal]
      [] lo = "non_dict" ->
            [raised |-> "none", kind |-> "list", sub |-> NoneVal]
      [] lo = "http_error" ->
            [raised |-> "HTTPError", kind |-> "none", sub |-> NoneVal]
      [] lo = "network_error" ->
            [raised |-> "ConnectionError", kind |-> "none", sub |-> NoneVal]
      [] lo = "bad_json" ->
            [raised |-> "RequestsJSONDecodeError", kind |-> "none",
             sub |-> NoneVal]
      [] lo = "bad_json_legacy" ->
            [raised |-> "JSONDecodeError", kind |-> "none", sub |-> NoneVal]

\* get_profile_info(): a request error gives the empty dict
get_profile_info(lo) ==
    LET r == userinfo_request(lo) IN
    IF r.raised # "none" /\ IsInstance(r.raised, "RequestException")
    THEN [raised |-> "none", kind |-> "dict", sub |-> NoneVal,
          http |-> <<GetUserinfo>>]
    ELSE [raised |-> r.raised, kind |-> r.kind, sub |-> r.sub,
          http |-> <<GetUserinfo>>]

\* get_profile_id(): profile.get('sub')
get_profile_id(lo) ==
    LET profile == get_profile_info(lo) IN
    IF profile.raised # "none"
    THEN [raised |-> profile.raised, id |-> NoneVal, http |-> profile.http]
    ELSE IF profile.kind # "dict"
         THEN [raised |-> "AttributeError", id |-> NoneVal,
               http |-> profile.http]
         ELSE [raised |-> "none", id |-> profile.sub, http |-> profile.http]

\* the try block of create_text_post: requests.post, raise_for_status,
\* response.json(); the except clause re-raises
ugc_request(po) ==
    CASE po = "created" -> [raised |-> "none", result |-> "dict"]
      [] po = "empty_json" -> [raised |-> "none", result |-> "empty_dict"]
      [] po = "non_dict" -> [raised |-> "none", result |-> "list"]
      [] po = "http_error" -> [raised |-> "HTTPError", result |-> "none"]
      [] po = "network_error" ->
            [raised |-> "ConnectionError", result |-> "none"]
      [] po = "bad_json" ->
            [raised |-> "RequestsJSONDecodeError", result |-> "none"]

\* create_text_post that sends the request again when it failed
create_text_post_retry(text, lo, po) ==
    LET p == get_profile_id(lo) IN
    IF p.raised # "none"
    THEN [raised |-> p.raised, result |-> "none", http |-> p.http]
    ELSE IF ~Truthy(p.id)
         THEN [raised |-> "ValueError", result |-> "none", http |-> p.http]
         ELSE LET r == ugc_request(po)
                  sent == p.http \o <<PostUgc(p.id, text)>>
              IN  [raised |-> r.raised, result |-> r.result,
                   http |-> IF r.raised # "none"
                            THEN sent \o <<PostUgc(p.id, text)>>
                            ELSE sent]

\* create_text_post without the test of profile_id
create_text_post_unchecked(text, lo, po) ==
    LET p == get_profile_id(lo) IN
    IF p.raised # "none"
    THEN [raised |-> p.raised, result |-> "none", http |-> p.http]
    ELSE LET r == ugc_request(po) IN
         [raised |-> r.raised, result |-> r.result,
          http |-> p.http \o <<PostUgc(p.id, text)>>]

\* LinkedInAPI.create_text_post(text)
create_text_post(text, lo, po) ==
    LET p == get_profile_id(lo) IN
    IF p.raised # "none"
    THEN [raised |-> p.raised, result |-> "none", http |-> p.http]
    ELSE IF ~Truthy(p.id)
         THEN [raised |-> "ValueError", result |-> "none", http |-> p.http]
         ELSE LET r == ugc_request(po) IN
              [raised |-> r.raised, result |-> r.result,
               http |-> p.http \o <<PostUgc(p.id, text)>>]

\* what the register-upload POST, the download of the image and the upload
\* of its bytes can give
RegisterOutcomes ==
    {"ok", "http_error", "network_error", "bad_json", "missing_key"}

DownloadOutcomes == {"ok", "http_error", "network_error"}

UploadOutcomes == {"ok", "http_error", "network_error"}

PostRegisterUpload(profile_id) ==
    [method |-> "POST", url |-> "/v2/assets?action=registerUpload",
     author |-> profile_id, text |-> << >>]

GetImage ==
    [method |-> "GET", url |-> "image_url", author |-> << >>, text |-> << >>]

PostImageBytes ==
    [method |-> "POST", url |-> "uploadUrl", author |-> << >>, text |-> << >>]

\* requests.post(registerUpload), raise_for_status, .json() and the lookups
\* of uploadUrl and asset in it
register_request(ro) ==
    CASE ro = "ok" -> "none"
      [] ro = "http_error" -> "HTTPError"
      [] ro = "network_error" -> "ConnectionError"
      [] ro = "bad_json" -> "RequestsJSONDecodeError"
      [] ro = "missing_key" -> "KeyError"

\* requests.get(image_url), raise_for_status
download_request(dlo) ==
    CASE dlo = "ok" -> "none"
      [] dlo = "http_error" -> "HTTPError"
      [] dlo = "network_error" -> "ConnectionError"

\* requests.post(upload_url, ...): the status of its response is not looked at
upload_request(uo) ==
    CASE uo = "ok" -> "none"
      [] uo = "http_error" -> "none"
      [] uo = "network_error" -> "ConnectionError"

Step(name, outcome) == [step |-> name, outcome |-> outcome]

\* create_post_with_image(text, image_url): lo, ro, dlo, uo and po are what
\* the lookup, the registration, the download, the upload and the create-post
\* request give; the except clause prints and re-raises
create_post_with_image(text, lo, ro, dlo, uo, po) ==
    LET p == get_profile_id(lo)
        h1 == p.http \o <<PostRegisterUpload(p.id)>>
        s1 == <<Step("register", ro)>>
        h2 == h1 \o <<GetImage>>
        s2 == s1 \o <<Step("download", dlo)>>
        h3 == h2 \o <<PostImageBytes>>
        s3 == s2 \o <<Step("upload", uo)>>
        h4 == h3 \o <<PostUgc(p.id, text)>>
        s4 == s3 \o <<Step("post", po)>>
        r == ugc_request(po)
        End(raised, result, http, steps) ==
            [raised |-> raised, result |-> result, http |-> http,
             steps |-> steps]
    IN  IF p.raised # "none" THEN End(p.raised, "none", p.http, << >>)
        ELSE IF ~Truthy(p.id) THEN End("ValueError", "none", p.http, << >>)
        ELSE IF register_request(ro) # "none"
             THEN End(register_request(ro), "none", h1, s1)
        ELSE IF download_request(dlo) # "none"
             THEN End(download_request(dlo), "none", h2, s2)
        ELSE IF upload_request(uo) # "none"
             THEN End(upload_request(uo), "none", h3, s3)
        ELSE End(r.raised, r.result, h4, s4)

\* test_connection without its try/except
api_test_connection_bare(lo) ==
    LET profile == get_profile_info(lo) IN
    IF profile.raised # "none"
    THEN [raised |-> profile.raised, value |-> FALSE, http |-> profile.http]
    ELSE IF profile.kind # "dict"
         THEN [raised |-> "AttributeError", value |-> FALSE,
               http |-> profile.http]
         ELSE [raised |-> "none", value |-> Truthy(profile.sub),
               http |-> profile.http]

\* test_connection that tests the profile instead of its 'sub'
api_test_connection_profile(lo) ==
    LET profile == get_profile_info(lo) IN
    [raised |-> "none", value |-> profile.raised = "none",
     http |-> profile.http]

\* LinkedInAPI.test_connection()
api_test_connection(lo) ==
    LET profile == get_profile_info(lo)
        r == IF profile.raised # "none"
             THEN [raised |-> profile.raised, value |-> FALSE]
             ELSE IF profile.kind # "dict"
                  THEN [raised |-> "AttributeError", value |-> FALSE]
                  ELSE [raised |-> "none", value |-> Truthy(profile.sub)]
    IN  IF r.raised # "none" /\ IsInstance(r.raised, "Exception")
        THEN [raised |-> "none", value |-> FALSE, http |-> profile.http]
        ELSE [raised |-> r.raised, value |-> r.value, http |-> profile.http]

\* ------------------------------------------------------------ orchestrator

VARIABLES
    environ,     \* os.environ: the keys load_environment reads; under
                 \* SpecSecret a dict from names to values
    tz,          \* UTC offsets in minutes: [config, system]
    cli,         \* the run of cli.py: its command and exit status
    env,         \* the values of the required keys on class Config
    ctor,        \* how the last LinkedInBot() call ended
    POST_TIME,   \* Config.POST_TIME: [valid, minute]
    now,         \* the system clock, in minutes
    is_running,  \* LinkedInBot.is_running
    jobs,        \* schedule's job list: records [at, next_run]
    pc,          \* "idle", or "while" inside start_scheduler's loop
    ret          \* the most recent call: what it returned or raised and did

vars == <<environ, tz, cli, env, ctor, POST_TIME, now, is_running, jobs, pc, ret>>

NoCall ==
    [op |-> "none", raised |-> "none", value |-> "None", text |-> << >>,
     http |-> << >>, gen_calls |-> 0, fallback |-> FALSE, topic |-> << >>,
     caught |-> "none", arg |-> NoneVal, gen |-> "none", lookup |-> "none",
     publish |-> "none", steps |-> << >>]

\* the record of a call op that raised `raised` or returned `value`
Ret(op, raised, value) ==
    [NoCall EXCEPT !.op = op, !.raised = raised, !.value = value]

\* the outcome the POST had, when the request list holds one
Published(http, po) == IF Len(http) = 2 THEN po ELSE "none"

\* the try block of create_and_post
create_and_post_body(topic, pick, template, go, tip, lo, po) ==
    LET g == generate_post(topic, pick, template, go, tip)
        base == [op |-> "create_and_post", raised |-> "none",
                 value |-> "None", text |-> g.text, http |-> << >>,
                 gen_calls |-> g.calls, fallback |-> g.fallback,
                 topic |-> g.topic, caught |-> "none", arg |-> topic,
                 gen |-> go, lookup |-> "none", publish |-> "none",
                 steps |-> << >>]
    IN  IF g.raised # "none" THEN [base EXCEPT !.raised = g.raised]
        ELSE IF g.text = NoneVal THEN [base EXCEPT !.raised = "TypeError"]
        ELSE LET r == create_text_post(g.text, lo, po)
                 sent == [base EXCEPT !.http = r.http, !.lookup = lo,
                                      !.publish = Published(r.http, po)]
             IN
             IF r.raised # "none"
             THEN [sent EXCEPT !.raised = r.raised]
             ELSE IF r.result = "dict"
                  THEN [sent EXCEPT !.value = "True"]
                  ELSE IF r.result = "list"
                       THEN [sent EXCEPT !.raised = "AttributeError"]
                       ELSE [sent EXCEPT !.value = "False"]

\* create_and_post whose handler catches request errors only
create_and_post_narrow(topic, pick, template, go, tip, lo, po) ==
    LET b == create_and_post_body(topic, pick, template, go, tip, lo, po) IN
    IF b.raised # "none" /\ IsInstance(b.raised, "RequestException")
    THEN [b EXCEPT !.raised = "none", !.value = "False", !.caught = b.raised]
    ELSE b

\* create_and_post that lets every exception through
create_and_post_uncaught(topic, pick, template, go, tip, lo, po) ==
    create_and_post_body(topic, pick, template, go, tip, lo, po)

\* LinkedInBot.create_and_post(topic): except Exception gives False
create_and_post(topic, pick, template, go, tip, lo, po) ==
    LET b == create_and_post_body(topic, pick, template, go, tip, lo, po) IN
    IF b.raised # "none" /\ IsInstance(b.raised, "Exception")
    THEN [b EXCEPT !.raised = "none", !.value = "False", !.caught = b.raised]
    ELSE b

\* every way one create_and_post(topic) call can end
PostResults(topic) ==
    { create_and_post(topic, pick, post_templates[k], go, tip, lo, po) :
        pick \in TopicChoices, k \in 1..Len(post_templates),
        go \in GenOutcomes, tip \in 1..5,
        lo \in LookupOutcomes, po \in PostOutcomes }

ReactJs == frontend_topics[1]

\* the topics post_now is called with: none, the empty string, "React.js"
PostNowTopics == {NoneVal, << >>, ReactJs}

PostNowResults ==
    [topic \in PostNowTopics |-> PostResults(topic)]

ScheduledResults == PostResults(NoneVal)

\* ------------------------------------------------------------ the schedule

\* minute `at` of the day of `t`, whether it has passed or not
NextRunToday(t, at) == (t \div DayLen) * DayLen + at

\* the next occurrence of minute `at` of the day strictly after `t`
\* (Job._schedule_next_run for every().day.at(...))
NextRun(t, at) ==
    IF at > t % DayLen
    THEN (t \div DayLen) * DayLen + at
    ELSE ((t \div DayLen) + 1) * DayLen + at

\* Job.should_run
ShouldRun(job, t) == t >= job.next_run

\* a registration that adds no job
RegisterNothing(js, t, at) == js

\* schedule.every().day.at(POST_TIME).do(job_func): the list with the new job
Register(js, t, at) == Append(js, [at |-> at, next_run |-> NextRun(t, at)])

\* schedule.clear()
Clear(js) == << >>

\* stop_scheduler() that leaves the job list as it is
stop_scheduler_keeps_jobs(running, js) == [is_running |-> FALSE, jobs |-> js]

\* stop_scheduler() that leaves the flag as it is
stop_scheduler_keeps_flag(running, js) ==
    [is_running |-> running, jobs |-> Clear(js)]

\* LinkedInBot.stop_scheduler(): the fields it leaves
stop_scheduler(running, js) == [is_running |-> FALSE, jobs |-> Clear(js)]

\* run_pending that leaves the next run of a job it ran as it was
RescheduledNever(js, t) == js

\* the job list after run_pending at time t: every due job rescheduled
Rescheduled(js, t) ==
    [i \in DOMAIN js |->
        IF ShouldRun(js[i], t)
        THEN [js[i] EXCEPT !.next_run = NextRun(t, js[i].at)]
        ELSE js[i]]

AnyDue(js, t) == \E i \in DOMAIN js : ShouldRun(js[i], t)

RECURSIVE MinNextRun(_)
MinNextRun(js) ==
    IF Len(js) = 1 THEN js[1].next_run
    ELSE LET m == MinNextRun(Tail(js)) IN
         IF js[1].next_run <= m THEN js[1].next_run ELSE m

Digit == <<"0","1","2","3","4","5","6","7","8","9">>

\* a number as two decimal digits (%d, %H, %M, %S)
TwoDigits(n) == <<Digit[((n \div 10) % 10) + 1], Digit[(n % 10) + 1]>>

\* strftime("%Y-%m-%d %H:%M:%S") of minute t since 2024-01-01 00:00 on the
\* model's calendar, whose days are DayLen minutes long
Strftime(t) ==
    <<"2","0","2","4","-","0","1","-">> \o TwoDigits((t \div DayLen) + 1)
      \o <<" ">> \o TwoDigits((t % DayLen) \div 60) \o <<":">>
      \o TwoDigits((t % DayLen) % 60) \o <<":","0","0">>

\* get_next_post_time with the format "%H:%M:%S"
get_next_post_time_short(js) ==
    IF js # << >>
    THEN SubSeq(Strftime(MinNextRun(js)), 12, 19)
    ELSE NoPostsScheduled

\* LinkedInBot.get_next_post_time()
get_next_post_time(js) ==
    IF js # << >> THEN Strftime(MinNextRun(js)) ELSE NoPostsScheduled

\* ----------------------------------------------------------------- actions

RequiredSet == {required_vars[i] : i \in 1..Len(required_vars)}

NotConstructed == [called |-> FALSE, raised |-> "none", msg |-> << >>]

\* Config.POST_TIME: "HH:MM" as the minute of the day, or a string that
\* schedule's at() rejects
PostTimes ==
    {[valid |-> TRUE, minute |-> m] : m \in 0..(DayLen - 1)}
      \cup {[valid |-> FALSE, minute |-> 0]}

Bool(b) == IF b THEN "True" ELSE "False"

\* bot = LinkedInBot()
Construct ==
    /\ ~ctor.called
    /\ LET r == LinkedInBotInit(env) IN
       ctor' = [called |-> TRUE, raised |-> r.raised, msg |-> r.msg]
    /\ UNCHANGED <<environ, tz, cli>>
    /\ UNCHANGED <<env, POST_TIME, now, is_running, jobs, pc, ret>>

\* bot.post_now(topic)
PostNow ==
    /\ pc = "idle"
    /\ \E topic \in PostNowTopics :
         \E r \in PostNowResults[topic] :
            ret' = [r EXCEPT !.op = "post_now"]
    /\ UNCHANGED <<environ, tz, cli>>
    /\ UNCHANGED <<env, ctor, POST_TIME, now, is_running, jobs, pc>>

\* bot.test_connection()
TestConnection ==
    /\ pc = "idle"
    /\ \E lo \in LookupOutcomes :
         LET c == api_test_connection(lo) IN
         ret' = [Ret("test_connection", c.raised, Bool(c.value))
                   EXCEPT !.http = c.http, !.lookup = lo]
    /\ UNCHANGED <<environ, tz, cli>>
    /\ UNCHANGED <<env, ctor, POST_TIME, now, is_running, jobs, pc>>

\* bot.linkedin_api.create_text_post(text)
CreateTextPost ==
    /\ pc = "idle"
    /\ \E lo \in LookupOutcomes, po \in PostOutcomes :
         LET r == create_text_post(Strip(AIText), lo, po) IN
         ret' = [Ret("create_text_post", r.raised, r.result)
                   EXCEPT !.http = r.http, !.lookup = lo,
                          !.publish = Published(r.http, po),
                          !.text = Strip(AIText)]
    /\ UNCHANGED <<environ, tz, cli>>
    /\ UNCHANGED <<env, ctor, POST_TIME, now, is_running, jobs, pc>>

\* the calls create_post_with_image(text, image_url)
ImagePostResults ==
    { LET r == create_post_with_image(Strip(AIText), lo, ro, dlo, uo, po) IN
      [Ret("create_post_with_image", r.raised, r.result)
         EXCEPT !.http = r.http, !.lookup = lo, !.steps = r.steps,
                !.text = Strip(AIText)] :
        lo \in LookupOutcomes, ro \in RegisterOutcomes,
        dlo \in DownloadOutcomes, uo \in UploadOutcomes,
        po \in PostOutcomes }

\* bot.linkedin_api.create_post_with_image(text, image_url)
CreatePostWithImage ==
    /\ pc = "idle"
    /\ \E r \in ImagePostResults : ret' = r
    /\ UNCHANGED <<environ, tz, cli>>
    /\ UNCHANGED <<env, ctor, POST_TIME, now, is_running, jobs, pc>>

\* bot.get_next_post_time()
GetNextPostTime ==
    /\ ret' = [Ret("get_next_post_time", "none", "str")
                 EXCEPT !.text = get_next_post_time(jobs)]
    /\ UNCHANGED <<environ, tz, cli>>
    /\ UNCHANGED <<env, ctor, POST_TIME, now, is_running, jobs, pc>>

\* bot.start_scheduler(), up to the first test of the while loop
StartScheduler ==
    /\ pc = "idle"
    /\ \E lo \in LookupOutcomes :
         LET c == api_test_connection(lo)
             r == [Ret("start_scheduler", c.raised, "None")
                     EXCEPT !.http = c.http, !.lookup = lo]
         IN
         IF c.raised # "none"
         THEN /\ ret' = r
              /\ UNCHANGED <<is_running, jobs, pc>>
         ELSE IF ~c.value
         THEN /\ ret' = [r EXCEPT !.value = "False"]
              /\ UNCHANGED <<is_running, jobs, pc>>
         ELSE IF ~POST_TIME.valid
         THEN /\ ret' = [r EXCEPT !.raised = "ScheduleValueError"]
              /\ UNCHANGED <<is_running, jobs, pc>>
         ELSE /\ jobs' = Register(jobs, now, POST_TIME.minute)
              /\ is_running' = TRUE
              /\ pc' = "while"
              /\ ret' = [r EXCEPT !.value = "(in loop)"]
    /\ UNCHANGED <<environ, tz, cli>>
    /\ UNCHANGED <<env, ctor, POST_TIME, now>>

\* one pass of the loop while is_running holds: schedule.run_pending(), then
\* time.sleep(60)
Poll ==
    /\ pc = "while"
    /\ is_running
    /\ IF AnyDue(jobs, now)
       THEN \E r \in ScheduledResults :
              /\ ret' = [r EXCEPT !.op = "scheduled_post"]
              /\ IF r.raised = "none"
                 THEN /\ jobs' = Rescheduled(jobs, now)
                      /\ now' = IF now < MaxTime THEN now + 1 ELSE now
                      /\ UNCHANGED <<pc, is_running>>
                 ELSE /\ pc' = "idle"
                      /\ UNCHANGED <<jobs, now, is_running>>
       ELSE /\ ret' = Ret("run_pending", "none", "None")
            /\ now' = IF now < MaxTime THEN now + 1 ELSE now
            /\ UNCHANGED <<jobs, pc, is_running>>
    /\ UNCHANGED <<environ, tz, cli>>
    /\ UNCHANGED <<env, ctor, POST_TIME>>

\* the loop's test finds is_running false: start_scheduler returns
ExitLoop ==
    /\ pc = "while"
    /\ ~is_running
    /\ pc' = "idle"
    /\ ret' = Ret("start_scheduler", "none", "None")
    /\ UNCHANGED <<environ, tz, cli>>
    /\ UNCHANGED <<env, ctor, POST_TIME, now, is_running, jobs>>

\* bot.stop_scheduler(), from outside the loop's thread of control
StopScheduler ==
    /\ is_running' = stop_scheduler(is_running, jobs).is_running
    /\ jobs' = stop_scheduler(is_running, jobs).jobs
    /\ ret' = Ret("stop_scheduler", "none", "None")
    /\ UNCHANGED <<environ, tz, cli>>
    /\ UNCHANGED <<env, ctor, POST_TIME, now, pc>>

\* KeyboardInterrupt inside the loop: the handler calls stop_scheduler()
Interrupt ==
    /\ pc = "while"
    /\ is_running' = stop_scheduler(is_running, jobs).is_running
    /\ jobs' = stop_scheduler(is_running, jobs).jobs
    /\ pc' = "idle"
    /\ ret' = [Ret("start_scheduler", "none", "None")
                 EXCEPT !.caught = "KeyboardInterrupt"]
    /\ UNCHANGED <<environ, tz, cli>>
    /\ UNCHANGED <<env, ctor, POST_TIME, now>>

\* a minute passes while no start_scheduler call is active
Advance ==
    /\ pc = "idle"
    /\ now < MaxTime
    /\ now' = now + 1
    /\ UNCHANGED <<environ, tz, cli>>
    /\ UNCHANGED <<env, ctor, POST_TIME, is_running, jobs, pc, ret>>

\* ------------------------------------------------------- the command line

\* the subcommands of cli.py; "none" is a command line without one
Subcommands == {"start", "post", "test", "generate", "next"}

\* how bot.start_scheduler() ends for cli.py: it returns False when the check
\* fails, at() raises on a POST_TIME it rejects, and the loop is left through
\* its own KeyboardInterrupt handler, after which it returns None
start_scheduler_result(lo, post_time) ==
    IF ~api_test_connection(lo).value THEN "False"
    ELSE IF ~post_time.valid THEN "ScheduleValueError"
    ELSE "None"

\* a run of main that ended with status `exit`
Exited(cmd, exit) ==
    [ran |-> TRUE, cmd |-> cmd, exit |-> exit, raised |-> "none",
     failed |-> FALSE, lookup |-> "none", posted |-> FALSE,
     printed |-> "none", next_time |-> << >>]

\* the branches of main's try block after bot = LinkedInBot(): js is the job
\* list of the process, started is what start_scheduler did, posted and
\* tested what post_now and test_connection returned; printed is the kind of
\* the last line the branch prints
cli_dispatch(cmd, js, started, posted, tested) ==
    CASE cmd = "start" ->
            IF started = "ScheduleValueError"
            THEN [Exited(cmd, 1) EXCEPT !.raised = started,
                                        !.printed = "error"]
            ELSE [Exited(cmd, 0) EXCEPT !.failed = (started = "False"),
                                        !.printed = "starting"]
      [] cmd = "post" ->
            IF posted THEN [Exited(cmd, 0) EXCEPT !.printed = "success"]
            ELSE [Exited(cmd, 1) EXCEPT !.failed = TRUE,
                                        !.printed = "failure"]
      [] cmd = "test" ->
            IF tested THEN [Exited(cmd, 0) EXCEPT !.printed = "success"]
            ELSE [Exited(cmd, 1) EXCEPT !.failed = TRUE,
                                        !.printed = "failure"]
      [] cmd = "generate" ->
            IF ContentGeneratorInit.raised # "none"
            THEN [Exited(cmd, 1)
                    EXCEPT !.raised = ContentGeneratorInit.raised,
                           !.printed = "error"]
            ELSE [Exited(cmd, 0) EXCEPT !.printed = "content"]
      [] cmd = "next" ->
            [Exited(cmd, 0) EXCEPT !.printed = "next",
                                   !.next_time = get_next_post_time(js)]

\* cli.main: without a subcommand it prints the help and returns; otherwise
\* the bot is constructed inside the try block and except Exception exits 1
cli_main(cmd, cfg, js, started, posted, tested) ==
    IF cmd = "none" THEN [Exited(cmd, 0) EXCEPT !.printed = "help"]
    ELSE LET b == LinkedInBotInit(cfg) IN
         IF b.raised # "none" /\ IsInstance(b.raised, "Exception")
         THEN [Exited(cmd, 1) EXCEPT !.raised = b.raised,
                                     !.printed = "error"]
         ELSE cli_dispatch(cmd, js, started, posted, tested)

\* schedule's job list when a process starts: the module has just been
\* imported and nothing is registered
FreshRegistry == << >>

\* python cli.py [subcommand], a process of its own, after any earlier runs,
\* in a world where the profile lookup would give lo and post_now would
\* return posted
CliRun ==
    /\ \E cmd \in Subcommands \cup {"none"}, lo \in LookupOutcomes,
          posted \in BOOLEAN :
         cli' = [cli_main(cmd, env, FreshRegistry,
                          start_scheduler_result(lo, POST_TIME),
                          posted, api_test_connection(lo).value)
                   EXCEPT !.lookup = lo, !.posted = posted]
    /\ UNCHANGED <<environ, tz>>
    /\ UNCHANGED <<env, ctor, POST_TIME, now, is_running, jobs, pc, ret>>

\* ------------------------------------------------- the generator's functions

\* the characters a post handed to add_hashtags is made of
Alphabet == {"a", "#", " ", "\n"}

\* the posts of at most MaxTextLen characters
Texts == UNION {[1..n -> Alphabet] : n \in 0..MaxTextLen}

\* generator.add_hashtags(post), on a text or on the result it gave before
AddHashtags ==
    /\ \E post \in Texts \cup {ret.text} :
         ret' = [Ret("add_hashtags", "none", "str")
                   EXCEPT !.arg = post, !.text = add_hashtags(post)]
    /\ UNCHANGED <<environ, tz, cli>>
    /\ UNCHANGED <<env, ctor, POST_TIME, now, is_running, jobs, pc>>

\* the calls _generate_fallback_post(topic) for the topics of frontend_topics
FallbackResults ==
    { [Ret("_generate_fallback_post", "none", "str")
         EXCEPT !.arg = frontend_topics[i],
                !.topic = frontend_topics[i],
                !.fallback = TRUE,
                !.text = generate_fallback_post(frontend_topics[i], tip)] :
        i \in 1..Len(frontend_topics), tip \in 1..5 }

\* generator._generate_fallback_post(topic), for a topic of frontend_topics
FallbackPost ==
    /\ \E r \in FallbackResults : ret' = r
    /\ UNCHANGED <<environ, tz, cli>>
    /\ UNCHANGED <<env, ctor, POST_TIME, now, is_running, jobs, pc>>

\* the call generate_post(topic) under the choices and outcome given
GenerateResult(topic, pick, template, go, tip) ==
    LET g == generate_post(topic, pick, template, go, tip) IN
    [Ret("generate_post", g.raised,
         IF g.text = NoneVal THEN "None" ELSE "str")
       EXCEPT !.arg = topic, !.topic = g.topic, !.text = g.text,
              !.gen_calls = g.calls, !.fallback = g.fallback, !.gen = go]

GenerateResults ==
    { GenerateResult(topic, pick, post_templates[k], go, tip) :
        topic \in PostNowTopics, pick \in TopicChoices,
        k \in 1..Len(post_templates), go \in GenOutcomes, tip \in 1..5 }

\* generator.generate_post(topic)
GeneratePost ==
    /\ \E r \in GenerateResults : ret' = r
    /\ UNCHANGED <<environ, tz, cli>>
    /\ UNCHANGED <<env, ctor, POST_TIME, now, is_running, jobs, pc>>

\* config.py is imported: load_environment()
LoadEnvironment ==
    /\ ret.op = "none"
    /\ \E so \in StoreOutcomes :
         LET r == load_environment(environ, so) IN
         /\ environ' = r.environ
         /\ ret' = [Ret("load_environment", r.raised, "None")
                      EXCEPT !.steps = r.steps]
    /\ UNCHANGED <<tz, cli>>
    /\ UNCHANGED <<env, ctor, POST_TIME, now, is_running, jobs, pc>>

\* the characters a secret is made of
SecretAlphabet == {"A", "v", "=", "#", " ", "\n"}

\* the secrets of at most MaxSecretLen characters
SecretContents == UNION {[1..n -> SecretAlphabet] : n \in 0..MaxSecretLen}

\* manager.load_secret_to_env(secret_id)
LoadSecretToEnv ==
    /\ ret.op = "none"
    /\ \E ao \in AccessOutcomes, payload \in SecretContents :
         LET r == load_secret_to_env(environ, ao, payload) IN
         /\ environ' = r.environ
         /\ ret' = [Ret("load_secret_to_env", r.raised, r.value)
                      EXCEPT !.arg = access_secret(ao, payload)]
    /\ UNCHANGED <<tz, cli>>
    /\ UNCHANGED <<env, ctor, POST_TIME, now, is_running, jobs, pc>>

\* ---------------------------------------------------------- specifications

AllSet == [v \in RequiredSet |-> <<"a">>]

\* a bot whose fields are as LinkedInBot.__init__ assigns them
BotFields ==
    /\ is_running = FALSE
    /\ jobs = << >>
    /\ pc = "idle"
    /\ ret = NoCall

\* TIMEZONE at its default 'UTC', on a machine whose zone is UTC
UtcZones == [config |-> 0, system |-> 0]

\* cli.py has not run
NotRun ==
    [ran |-> FALSE, cmd |-> "none", exit |-> 0, raised |-> "none",
     failed |-> FALSE, lookup |-> "none", posted |-> FALSE,
     printed |-> "none", next_time |-> << >>]

\* a local machine on UTC, no command line run
Setup ==
    /\ environ = LocalEnviron
    /\ tz = UtcZones
    /\ cli = NotRun

\* the scheduler: start, poll, stop, interrupt
Init ==
    /\ Setup
    /\ env = AllSet
    /\ ctor = NotConstructed
    /\ POST_TIME \in PostTimes
    /\ now = 0
    /\ BotFields

Next ==
    \/ StartScheduler
    \/ Poll
    \/ ExitLoop
    \/ StopScheduler
    \/ Interrupt
    \/ Advance
    \/ GetNextPostTime

Spec == Init /\ [][Next]_vars

\* the loop's thread keeps running
SpecLive == Spec /\ WF_vars(Poll) /\ WF_vars(ExitLoop)

\* the UTC offsets a zone can have, in minutes of the day
ZoneOffsets == 0..(DayLen - 1)

\* the scheduler under every TIMEZONE and every zone of the machine
InitTz ==
    /\ environ = LocalEnviron
    /\ tz \in [config : ZoneOffsets, system : ZoneOffsets]
    /\ cli = NotRun
    /\ env = AllSet
    /\ ctor = NotConstructed
    /\ POST_TIME \in {p \in PostTimes : p.valid}
    /\ now = 0
    /\ BotFields

SpecTz == InitTz /\ [][Next]_vars

\* the calls on a bot whose scheduler is not started
NextPost ==
    \/ PostNow
    \/ TestConnection
    \/ CreateTextPost
    \/ CreatePostWithImage
    \/ GetNextPostTime

InitPost ==
    /\ Setup
    /\ env = AllSet
    /\ ctor = NotConstructed
    /\ POST_TIME = [valid |-> TRUE, minute |-> 0]
    /\ now = 0
    /\ BotFields

SpecPost == InitPost /\ [][NextPost]_vars

\* construction under every setting of the required keys
InitConfig ==
    /\ Setup
    /\ env \in [RequiredSet -> EnvValues]
    /\ ctor = NotConstructed
    /\ POST_TIME = [valid |-> TRUE, minute |-> 0]
    /\ now = 0
    /\ BotFields

NextConfig == Construct

SpecConfig == InitConfig /\ [][NextConfig]_vars

\* the command line under every setting of the required keys
InitCli ==
    /\ Setup
    /\ env \in [RequiredSet -> EnvValues]
    /\ ctor = NotConstructed
    /\ POST_TIME \in PostTimes
    /\ now = 0
    /\ BotFields

NextCli == CliRun

SpecCli == InitCli /\ [][NextCli]_vars

\* the functions of the content generator, called on their own
NextText ==
    \/ AddHashtags
    \/ FallbackPost
    \/ GeneratePost

SpecText == InitPost /\ [][NextText]_vars

\* what a key of os.environ can hold before config.py is imported
EnvironValues(k) ==
    IF k \in CloudIndicators THEN {NoneVal, << >>, <<"x">>}
    ELSE IF k = "USE_SECRET_MANAGER"
         THEN {NoneVal, <<"t", "r", "u", "e">>, <<"T", "r", "u", "e">>,
               <<"f", "a", "l", "s", "e">>}
         ELSE {NoneVal, <<"e">>}

\* the import of config.py under every setting of those keys
InitLoad ==
    /\ environ \in {e \in [EnvironKeys -> {NoneVal, << >>, <<"x">>, <<"e">>,
                                           <<"t", "r", "u", "e">>,
                                           <<"T", "r", "u", "e">>,
                                           <<"f", "a", "l", "s", "e">>}] :
                       \A k \in EnvironKeys : e[k] \in EnvironValues(k)}
    /\ tz = UtcZones
    /\ cli = NotRun
    /\ env = AllSet
    /\ ctor = NotConstructed
    /\ POST_TIME = [valid |-> TRUE, minute |-> 0]
    /\ now = 0
    /\ BotFields

NextLoad == LoadEnvironment

SpecLoad == InitLoad /\ [][NextLoad]_vars

\* an os.environ that holds A and Z, Z being a name no secret defines
SomeEnviron ==
    [k \in {<<"A">>, <<"Z">>} |-> IF k = <<"A">> THEN <<"o">> ELSE <<"z">>]

\* load_secret_to_env on an empty and on a non-empty os.environ
InitSecret ==
    /\ environ \in {NoEnviron, SomeEnviron}
    /\ tz = UtcZones
    /\ cli = NotRun
    /\ env = AllSet
    /\ ctor = NotConstructed
    /\ POST_TIME = [valid |-> TRUE, minute |-> 0]
    /\ now = 0
    /\ BotFields

NextSecret == LoadSecretToEnv

SpecSecret == InitSecret /\ [][NextSecret]_vars

\* ------------------------------------------------------------------ claims

\* the required keys a message names
NamedKeys(msg) == {msg[i] : i \in DOMAIN msg} \cap RequiredSet

MissingSet(cfg) == {v \in RequiredSet : ~Truthy(cfg[v])}

\* C1: LinkedInBot() with a required key absent or empty raises the
\* configuration error (ValueError) whose message names exactly the missing
\* keys.  (SpecConfig)
C1_ConstructionNamesMissingKeys ==
    (ctor.called /\ MissingSet(env) # {}) =>
        /\ ctor.raised = "ValueError"
        /\ NamedKeys(ctor.msg) = MissingSet(env)

GenFailed(r) == r.gen \in {"api_error", "none_content"}

LookupFailed(r) == r.lookup \in LookupOutcomes \ {"sub"}

PublishFailed(r) ==
    r.publish \in {"http_error", "network_error", "bad_json", "non_dict"}

\* C2, as it was stated: post_now never raises and returns a boolean, and
\* an error in the generation call, the profile lookup or the create-post
\* call is caught inside create_and_post with the result False.  (SpecPost)
C2_EveryErrorGivesFalse ==
    ret.op = "post_now" =>
        /\ ret.raised = "none"
        /\ ret.value \in {"True", "False"}
        /\ (ret.gen = "api_error" \/ LookupFailed(ret) \/ PublishFailed(ret))
               => (ret.caught # "none" /\ ret.value = "False")

\* C2, amended: post_now never raises and returns a boolean; an error of the
\* profile lookup or of the create-post call is caught inside
\* create_and_post and gives False; an error of the generation call is
\* caught inside generate_post, the fallback text is posted instead, and the
\* result is True exactly when the lookup gives a profile id and the post is
\* created.  (SpecPost)
C2_PostNowNeverRaises ==
    ret.op = "post_now" =>
        /\ ret.raised = "none"
        /\ ret.value \in {"True", "False"}
        /\ (LookupFailed(ret) \/ PublishFailed(ret)) =>
               (ret.caught # "none" /\ ret.value = "False")
        /\ GenFailed(ret) => (ret.fallback /\ ret.gen_calls = 1)
        /\ ret.value = "True" <=>
               (ret.lookup = "sub" /\ ret.publish = "created")

C2_Witness ==
    /\ ret.op = "post_now"
    /\ ret.publish = "http_error"
    /\ ret.caught = "HTTPError"
    /\ ret.value = "False"

\* the POST requests among the requests of the most recent call
Posts(r) == SelectSeq(r.http, LAMBDA q : q.method = "POST")

\* C3, as it was stated: post_now("React.js") with a generation call that
\* raises still calls create-post, with the fallback text containing
\* "#ReactJS", and returns True if the publish succeeds.  (SpecPost)
C3_FallbackHasReactJS ==
    (ret.op = "post_now" /\ ret.arg = ReactJs /\ ret.gen = "api_error") =>
        /\ ret.fallback
        /\ ret.lookup # "none"
        /\ Contains(ret.text, HashReactJS)
        /\ \A i \in DOMAIN Posts(ret) : Posts(ret)[i].text = ret.text
        /\ ret.publish = "created" => ret.value = "True"

\* C3, amended: the same, with the fallback text containing "#Reactjs" (the
\* topic with "." and " " removed, its letters unchanged).  (SpecPost)
C3_FallbackHasReactjs ==
    (ret.op = "post_now" /\ ret.arg = ReactJs /\ ret.gen = "api_error") =>
        /\ ret.fallback
        /\ ret.lookup # "none"
        /\ Contains(ret.text, HashReactjs)
        /\ ~Contains(ret.text, HashReactJS)
        /\ \A i \in DOMAIN Posts(ret) : Posts(ret)[i].text = ret.text
        /\ ret.publish = "created" => ret.value = "True"

C3_Witness ==
    /\ ret.op = "post_now"
    /\ ret.arg = ReactJs
    /\ ret.gen = "api_error"
    /\ ret.publish = "created"
    /\ Len(Posts(ret)) = 1
    /\ ret.value = "True"

\* C4, as it was stated: create_text_post with no profile id resolved raises
\* and has issued no HTTP request at all.  (SpecPost)
C4_NoRequestBeforeRaise ==
    (ret.op = "create_text_post" /\ LookupFailed(ret)) =>
        /\ ret.raised # "none"
        /\ ret.http = << >>

\* C4, amended: create_text_post with no profile id resolved raises and has
\* issued no create-post POST; the one request it has issued is the
\* profile-lookup GET.  (SpecPost)
C4_NoPostBeforeRaise ==
    (ret.op = "create_text_post" /\ LookupFailed(ret)) =>
        /\ ret.raised # "none"
        /\ Posts(ret) = << >>
        /\ ret.http = <<GetUserinfo>>

C4_Witness ==
    /\ ret.op = "create_text_post"
    /\ ret.lookup = "no_sub"
    /\ ret.raised = "ValueError"
    /\ ret.http = <<GetUserinfo>>

\* C5: test_connection never raises and returns True exactly when the
\* profile lookup succeeds with a non-empty 'sub'; every other outcome of
\* the lookup gives False.  (SpecPost)
C5_TestConnection ==
    ret.op = "test_connection" =>
        /\ ret.raised = "none"
        /\ ret.value \in {"True", "False"}
        /\ ret.value = "True" <=> ret.lookup = "sub"

C5_Witness ==
    /\ ret.op = "test_connection"
    /\ ret.lookup \in {"non_dict", "bad_json_legacy"}
    /\ ret.value = "False"

\* C6: the job list never holds more than one job, and holds exactly one
\* while the scheduler is running.  (Spec)
C6_AtMostOneJob ==
    /\ Len(jobs) <= 1
    /\ is_running => Len(jobs) = 1

\* running with one job registered, on the second day, the job having run
C6_Witness ==
    /\ is_running
    /\ Len(jobs) = 1
    /\ pc = "while"
    /\ ret.op = "scheduled_post"
    /\ now >= DayLen

\* C7: a start_scheduler whose connectivity check fails returns False with
\* no job registered, is_running false, the loop not entered and no post
\* request issued.  (Spec)
C7_FailedStartAborts ==
    (ret.op = "start_scheduler" /\ LookupFailed(ret)) =>
        /\ ret.raised = "none"
        /\ ret.value = "False"
        /\ jobs = << >>
        /\ ~is_running
        /\ pc = "idle"
        /\ Posts(ret) = << >>

C7_Witness ==
    /\ ret.op = "start_scheduler"
    /\ ret.lookup = "http_error"
    /\ ret.value = "False"
    /\ jobs = << >>

\* a scheduled run that ended in failure
FailedRun == ret.op = "scheduled_post" /\ ret.value = "False"

\* the scheduled run of minute t has taken place
RanAt(t) ==
    /\ ret.op = "scheduled_post"
    /\ Len(jobs) = 1
    /\ jobs[1].next_run = t + DayLen

\* C8: after a scheduled run that failed the bot is still running inside its
\* loop with the job registered for the next day's trigger time, and unless
\* it is stopped or interrupted the job runs again at that time.  (SpecLive)
C8_FailedRunKeepsScheduler ==
    /\ [](FailedRun =>
            /\ ret.raised = "none"
            /\ is_running
            /\ pc = "while"
            /\ Len(jobs) = 1
            /\ jobs[1].next_run % DayLen = POST_TIME.minute
            /\ jobs[1].next_run + 1 = now + DayLen \/ now = MaxTime)
    /\ \A t \in 0..MaxTime :
           (FailedRun /\ Len(jobs) = 1 /\ jobs[1].next_run = t)
               ~> (RanAt(t) \/ ~is_running)

\* a run that failed on the second day or later, its next run within the clock
C8_Witness ==
    /\ FailedRun
    /\ is_running
    /\ Len(jobs) = 1
    /\ jobs[1].next_run >= 2 * DayLen + POST_TIME.minute
    /\ jobs[1].next_run <= MaxTime

\* C9: the loop is left only through an interrupt or after stop_scheduler,
\* is_running turns false only through one of the two, and once
\* stop_scheduler has been called during the loop the loop is left with
\* is_running false.  (SpecLive)
C9_LoopEndsOnlyOnStop ==
    /\ [][(pc = "while" /\ pc' = "idle") =>
            /\ ~is_running'
            /\ ~is_running \/ ret'.caught = "KeyboardInterrupt"]_vars
    /\ [][(is_running /\ ~is_running') =>
            (ret'.op = "stop_scheduler"
               \/ ret'.caught = "KeyboardInterrupt")]_vars
    /\ (pc = "while" /\ ret.op = "stop_scheduler")
           ~> (pc = "idle" /\ ~is_running)

\* start_scheduler has returned after a stop_scheduler during the loop
C9_Witness ==
    /\ ret.op = "start_scheduler"
    /\ ret.lookup = "none"
    /\ ret.caught = "none"
    /\ pc = "idle"
    /\ ~is_running

\* C10: get_next_post_time returns "No posts scheduled" exactly when no job
\* is registered, which is the case whenever the scheduler is not running;
\* while it is running it returns the formatted time of the job's next run,
\* the next occurrence of POST_TIME.  (Spec)
C10_NextPostTime ==
    ret.op = "get_next_post_time" =>
        /\ ret.text = NoPostsScheduled <=> jobs = << >>
        /\ ~is_running => ret.text = NoPostsScheduled
        /\ is_running =>
              /\ ret.text = Strftime(jobs[1].next_run)
              /\ jobs[1].next_run % DayLen = POST_TIME.minute
              /\ jobs[1].next_run >= now
              /\ jobs[1].next_run <= now + DayLen

C10_Witness ==
    /\ ret.op = "get_next_post_time"
    /\ is_running
    /\ ret.text = Strftime(now + 1)
    /\ now >= DayLen

\* the minute of the day the clock of Config.TIMEZONE shows when the system
\* clock shows minute t
ZoneMinute(t) == (t + 2 * DayLen - tz.system + tz.config) % DayLen

\* a pass of the loop runs the job
Fires ==
    /\ pc = "while"
    /\ is_running
    /\ AnyDue(jobs, now)
    /\ ret'.op = "scheduled_post"

\* C11: whenever the daily job fires, the clock of the configured zone
\* Config.TIMEZONE shows POST_TIME, whatever the configured zone and the
\* zone of the machine.  (SpecTz)
C11_FiresAtPostTimeInTimezone ==
    [][Fires => ZoneMinute(now) = POST_TIME.minute]_vars

\* the run meets a failure the user faces: the configuration is incomplete,
\* the connection cannot be made (test, start), POST_TIME is not a time of the
\* day (start), or the post fails (post)
UserFacingFailure ==
    \/ MissingSet(env) # {}
    \/ cli.cmd \in {"start", "test"} /\ cli.lookup # "sub"
    \/ cli.cmd = "start" /\ ~POST_TIME.valid
    \/ cli.cmd = "post" /\ ~cli.posted

CanonicalHashtags ==
    <<"\n","\n","#","F","r","o","n","t","e","n","d","D","e","v","e","l",
    "o","p","m","e","n","t"," ","#","W","e","b","D","e","v","e","l",
    "o","p","m","e","n","t"," ","#","J","a","v","a","S","c","r","i",
    "p","t">>

\* C13: add_hashtags is idempotent: applied to its own result it returns the
\* result unchanged; a text with a "#" is returned unchanged, and a text
\* without one gets the three canonical hashtags appended once.  (SpecText)
C13_AddHashtagsIdempotent ==
    ret.op = "add_hashtags" =>
        /\ add_hashtags(ret.text) = ret.text
        /\ Contains(ret.arg, <<"#">>) => ret.text = ret.arg
        /\ ~Contains(ret.arg, <<"#">>) =>
               ret.text = ret.arg \o CanonicalHashtags

\* add_hashtags applied to the result it gave for a text without "#"
C13_Witness ==
    /\ ret.op = "add_hashtags"
    /\ Len(ret.arg) = MaxTextLen + Len(CanonicalHashtags)
    /\ ~Contains(SubSeq(ret.arg, 1, MaxTextLen), <<"#">>)
    /\ ret.text = ret.arg

\* the letters and digits
AlnumChars ==
    {"a", "b", "c", "d", "e", "f", "g", "h", "i", "j", "k", "l", "m",
     "n", "o", "p", "q", "r", "s", "t", "u", "v", "w", "x", "y", "z",
     "A", "B", "C", "D", "E", "F", "G", "H", "I", "J", "K", "L", "M",
     "N", "O", "P", "Q", "R", "S", "T", "U", "V", "W", "X", "Y", "Z",
     "0", "1", "2", "3", "4", "5", "6", "7", "8", "9"}

\* a topic with every character that is not a letter or a digit removed
KeepAlnum(topic) == SelectSeq(topic, LAMBDA c : c \in AlnumChars)

\* a topic with every "." and every " " removed
WithoutDotSpace(topic) == SelectSeq(topic, LAMBDA c : c \notin {".", " "})

\* the hashtags of a text: what follows each "#" that starts a word, up to
\* the next whitespace or the end of the text
HashtagTokens(text) ==
    { SubSeq(text, i + 1,
             CHOOSE j \in i..Len(text) :
                 /\ j = Len(text) \/ text[j + 1] \in Whitespace
                 /\ \A k \in i..j : text[k] \notin Whitespace) :
        i \in {n \in 1..Len(text) :
                 /\ text[n] = "#"
                 /\ n = 1 \/ text[n - 1] \in Whitespace} }

FallbackTexts(topic) ==
    {tips(topic)[i] \o FallbackTagsHead \o WithoutDotSpace(topic)
        \o FallbackTagsTail : i \in 1..5}

\* C15: generate_post makes exactly one generation request per invocation;
\* when the request fails the error is caught and the result is a fallback
\* text for the same topic; it always returns a string and never raises.
\* (SpecText)
C15_GenerateOnceOrFallback ==
    ret.op = "generate_post" =>
        /\ ret.raised = "none"
        /\ ret.value = "str"
        /\ ret.text # NoneVal
        /\ ret.gen_calls = 1
        /\ Truthy(ret.arg) => ret.topic = ret.arg
        /\ ~Truthy(ret.arg) => ret.topic \in TopicChoices
        /\ GenFailed(ret) =>
               (ret.fallback /\ ret.text \in FallbackTexts(ret.topic))
        /\ ~GenFailed(ret) => (~ret.fallback /\ ret.text = Strip(AIText))

\* generate_post("React.js") whose request raised: the fallback for React.js
C15_Witness ==
    /\ ret.op = "generate_post"
    /\ ret.arg = ReactJs
    /\ ret.gen = "api_error"
    /\ ret.gen_calls = 1
    /\ ret.text \in FallbackTexts(ReactJs)

\* an outcome that is a failure of its step
StepFailed(outcome) ==
    outcome \in {"http_error", "network_error", "bad_json", "missing_key"}

\* C16: create_post_with_image performs its steps in the order register
\* upload, download image, upload bytes, create post; a failure at any step
\* ends the call with the error raised, no later step performed and, when
\* the failed step is not the last, no create-post request issued.  (SpecPost)
C16_AnyStepFailureAborts ==
    ret.op = "create_post_with_image" =>
        /\ \A i \in DOMAIN ret.steps :
               ret.steps[i].step = <<"register", "download", "upload",
                                     "post">>[i]
        /\ \A i \in DOMAIN ret.steps :
               StepFailed(ret.steps[i].outcome) =>
                   /\ ret.raised # "none"
                   /\ i = Len(ret.steps)
                   /\ \A k \in DOMAIN ret.http :
                          ret.http[k].url = "/v2/ugcPosts" => i = 4

\* the sources the most recent load_environment turned to
Tried(name) == \E i \in DOMAIN ret.steps : ret.steps[i].step = name

\* the secret store gave the secrets
StoreLoaded ==
    \E i \in DOMAIN ret.steps :
        /\ ret.steps[i].step = "load_secrets_from_gcp"
        /\ ret.steps[i].outcome = "loaded"

\* C17: load_environment turns to the secret store only when a cloud
\* indicator or the USE_SECRET_MANAGER flag is set; it never raises, and it
\* reads the .env file in every case except when the load from the secret
\* store succeeded: after a load that gave False, after an ImportError and
\* after any other exception the file is read.  (SpecLoad)
C17_SecretStoreThenDotenv ==
    ret.op = "load_environment" =>
        /\ ret.raised = "none"
        /\ Tried("load_secrets_from_gcp") =>
               \/ \E k \in CloudIndicators : environ[k] \notin {NoneVal, << >>}
               \/ environ["USE_SECRET_MANAGER"] \in
                      {<<"t", "r", "u", "e">>, <<"T", "r", "u", "e">>}
        /\ Tried("load_dotenv") <=> ~StoreLoaded
        /\ StoreLoaded => environ["LINKEDIN_ACCESS_TOKEN"] = SecretValue
        /\ ~StoreLoaded => environ["LINKEDIN_ACCESS_TOKEN"] # NoneVal

\* the secret store was tried because of the flag alone, gave False, and the
\* .env file was read
C17_Witness ==
    /\ ret.op = "load_environment"
    /\ \A k \in CloudIndicators : environ[k] = NoneVal
    /\ ret.steps = <<Source("load_secrets_from_gcp", "not_loaded"),
                     Source("load_dotenv", "ok")>>
    /\ environ["LINKEDIN_ACCESS_TOKEN"] = FileValue

\* a step in which the post routine is invoked by the schedule
Invoked ==
    /\ ret'.op = "scheduled_post"
    /\ <<ret, jobs, now>>' # <<ret, jobs, now>>

\* C18: while the scheduler runs the post routine is invoked, with no topic,
\* exactly once a day: only at the job's trigger time, the minute POST_TIME
\* of the day, after which the next trigger is a day later whatever the
\* result of the run and however many passes of the loop take place; and at
\* every trigger time the routine is invoked unless the scheduler has been
\* stopped.  (SpecLive)
C18_OncePerDay ==
    /\ [][Invoked =>
            /\ pc = "while" /\ is_running
            /\ Len(jobs) = 1 /\ Len(jobs') = 1
            /\ now = jobs[1].next_run
            /\ now % DayLen = POST_TIME.minute
            /\ ret'.arg = NoneVal
            /\ jobs'[1].next_run = now + DayLen]_vars
    /\ \A t \in 0..MaxTime :
           (is_running /\ pc = "while" /\ Len(jobs) = 1
              /\ jobs[1].next_run = t)
               ~> (RanAt(t) \/ ~is_running)

\* the routine has just run at the trigger of the second day, the loop goes
\* on and the next trigger is that of the third day
C18_Witness ==
    /\ ret.op = "scheduled_post"
    /\ ret.arg = NoneVal
    /\ is_running
    /\ pc = "while"
    /\ Len(jobs) = 1
    /\ jobs[1].next_run = 2 * DayLen + POST_TIME.minute
    /\ now = DayLen + POST_TIME.minute + 1

\* start_scheduler has entered its loop
Started == ret.op = "start_scheduler" /\ ret.value = "(in loop)"

\* C19: there is no catch-up: when start_scheduler is called at or after the
\* minute POST_TIME of the day, the job's first trigger is that minute of the
\* next day; the routine is invoked only at the job's trigger time, and the
\* trigger moves only when the routine is invoked.  (Spec)
C19_NoCatchUp ==
    /\ [](Started =>
            /\ Len(jobs) = 1
            /\ jobs[1].next_run > now
            /\ jobs[1].next_run % DayLen = POST_TIME.minute
            /\ now % DayLen >= POST_TIME.minute =>
                   jobs[1].next_run =
                       ((now \div DayLen) + 1) * DayLen + POST_TIME.minute)
    /\ [][Invoked => (Len(jobs) = 1 /\ now = jobs[1].next_run)]_vars
    /\ [][(Len(jobs) = 1 /\ Len(jobs') = 1
             /\ jobs'[1].next_run # jobs[1].next_run) => Invoked]_vars

\* start_scheduler called after the minute POST_TIME of the second day
C19_Witness ==
    /\ Started
    /\ now >= DayLen
    /\ now % DayLen > POST_TIME.minute
    /\ Len(jobs) = 1
    /\ jobs[1].next_run > now + 1

C21_RunningFlagAndRegistry ==
    /\ is_running => (Len(jobs) >= 1 /\ pc = "while")
    /\ (ret.op = "stop_scheduler" \/ ret.caught = "KeyboardInterrupt") =>
           (~is_running /\ jobs = << >>)

\* stop_scheduler has been called while start_scheduler is inside its loop,
\* which it has not left yet
C21_Witness ==
    /\ ret.op = "stop_scheduler"
    /\ pc = "while"
    /\ ~is_running
    /\ jobs = << >>
    /\ now > 0

\* C22: a run of `python cli.py next`, after any sequence of earlier runs of
\* cli.py, prints the next scheduled time as "No posts scheduled", never as a
\* timestamp.  (SpecCli)
C22_NextPrintsSentinel ==
    cli.cmd = "next" =>
        (cli.printed = "next" /\ cli.next_time = NoPostsScheduled)

\* the names of the items of a parsed secret
ParsedKeys(d) == {d[i].key : i \in 1..Len(d)}

\* C23: load_secret_to_env returns False and leaves os.environ as it was
\* when the secret cannot be accessed, is empty or parses to no KEY=VALUE
\* pair; when it returns True the names of os.environ are the earlier ones
\* and the parsed ones, every parsed name holds its parsed value, and every
\* other name holds the value it had.  (SpecSecret)
C23_LoadSecretFrame ==
    [][(ret.op = "none" /\ ret'.op = "load_secret_to_env") =>
          LET parsed == parse_env_format(ret'.arg) IN
          /\ (~Truthy(ret'.arg) \/ parsed = << >>) =>
                 (ret'.raised = "none" /\ ret'.value = "False")
          /\ ret'.value = "False" => environ' = environ
          /\ ret'.value = "True" =>
                 /\ DOMAIN environ' = DOMAIN environ \cup ParsedKeys(parsed)
                 /\ \A i \in 1..Len(parsed) :
                        environ'[parsed[i].key] = parsed[i].value
                 /\ \A k \in DOMAIN environ \ ParsedKeys(parsed) :
                        environ'[k] = environ[k]]_vars

\* the secret "A=\nv=" loaded into an os.environ that held A and Z: A is
\* overwritten, v is new, Z is as it was
C23_Witness ==
    /\ ret.op = "load_secret_to_env"
    /\ ret.value = "True"
    /\ ret.arg = <<"A", "=", "\n", "v", "=">>
    /\ DOMAIN environ = {<<"A">>, <<"v">>, <<"Z">>}
    /\ environ[<<"A">>] = << >>
    /\ environ[<<"Z">>] = <<"z">>

====
